---- MODULE Spec2Model ----
(***************************************************************************)
(* Model of png2avif.py: the PNG text-chunk reader, the EXIF UserComment    *)
(* encoder, the ISOBMFF box header parser, the iloc offset patcher, the     *)
(* hdlr description injector and the per-file conversion worker.            *)
(*                                                                          *)
(* Byte strings are sequences of integers 0..255 (1-indexed as TLA+         *)
(* sequences; the operators below take Python's 0-based offsets).  Text is  *)
(* a sequence of Unicode code points.  Python's None is the record NoHeader *)
(* or a record with a status field.  Integers are Python's unbounded        *)
(* integers; the inputs drawn below keep every decoded number below 2^31.   *)
(***************************************************************************)
EXTENDS Integers, Sequences, FiniteSets, TLC

VARIABLES
    \* the .avif file and the injector
    avif,       \* bytes of the .avif file on disk (<<>> while it does not exist)
    avif0,      \* bytes of the .avif file before the first injection
    avif1,      \* bytes of the .avif file after the first injection
    calls,      \* number of _inject_handler_description calls made
    outcome,    \* how the last injection ended: "none", "noop", "written", "raised"
    shape,      \* descriptor the .avif file was built from
    \* the .png file and the extractor
    png,        \* bytes of the .png file
    chunks,     \* descriptor the .png file was built from: its chunk kinds in order
    parameters, \* result of _extract_sd_parameters: [present, text]
    extracted,  \* _extract_sd_parameters has returned
    \* the encoder
    commentText, \* argument of _to_user_comment_bytes
    comment,    \* its result
    encoded,    \* _to_user_comment_bytes has returned
    \* the iloc patcher
    metaPayload, \* argument meta_payload of _patch_iloc_offsets
    ilocDelta,  \* argument delta
    table,      \* descriptor the payload was built from
    patchResult, \* its result: [raised, payload]
    patchDone,  \* _patch_iloc_offsets has returned or raised
    \* one box walk, an iteration at a time
    walk,       \* which loop: "top" (for meta), "hdlr" or "iloc" (inside meta)
    wbuf,       \* the buffer walked
    wcur,       \* the loop's cursor (i or j)
    wstate,     \* "walking", "found", "malformed" or "absent"
    \* _worker_convert on one PNG file
    wpc,        \* where the worker is: "idle", "extract", "open", "save", "inject",
                \* "unlink", "done"
    dryrun,     \* its dryrun argument
    pngDecodes, \* Image.open accepts the PNG file
    pngExists,  \* the .png file exists
    avifExists, \* the .avif file exists
    exif,       \* the UserComment handed to img.save ([present, bytes])
    ret         \* the worker's first result component: "none", "ok", "fail"

injectVars == <<avif, avif0, avif1, calls, outcome, shape>>
extractVars == <<png, chunks, parameters, extracted>>
encodeVars == <<commentText, comment, encoded>>

patchVars == <<metaPayload, ilocDelta, table, patchResult, patchDone>>

walkVars == <<walk, wbuf, wcur, wstate>>
workerVars == <<wpc, dryrun, pngDecodes, pngExists, avifExists, exif, ret>>

vars == <<injectVars, extractVars, encodeVars, patchVars, walkVars, workerVars>>

(***************************************************************************)
(* Bytes                                                                    *)
(***************************************************************************)
Min(a, b) == IF a <= b THEN a ELSE b

\* F at the value of v: v is evaluated once and F sees the value (a local
\* variable of the code: assigned once, read many times).
Bind(v, F(_)) == CHOOSE r \in {F(x) : x \in {v}} : TRUE

\* Python's s[a:b] for 0 <= a (clamped to the sequence).
Slice(s, a, b) ==
    LET hi == Min(b, Len(s))
    IN  IF a >= hi THEN <<>> ELSE SubSeq(s, a + 1, hi)

\* Python's s[a:].
SliceFrom(s, a) == Slice(s, a, Len(s))

\* int.from_bytes(b, "big")
RECURSIVE FromBytesBig(_)
FromBytesBig(b) ==
    IF b = <<>> THEN 0
    ELSE FromBytesBig(SubSeq(b, 1, Len(b) - 1)) * 256 + b[Len(b)]

\* v.to_bytes(n, "big") succeeds: v is non-negative and below 256^n.
\* (Every number of the model is below 2^31 = 256^4 / 2.)
CanToBytes(v, n) == v >= 0 /\ (n >= 4 \/ v < 256 ^ n)

\* v.to_bytes(n, "big"), for CanToBytes(v, n).
RECURSIVE ToBytesBig(_, _)
ToBytesBig(v, n) ==
    IF n = 0 THEN <<>> ELSE ToBytesBig(v \div 256, n - 1) \o <<v % 256>>

\* bytes of n zeros
RECURSIVE Zeros(_)
Zeros(n) == IF n <= 0 THEN <<>> ELSE <<0>> \o Zeros(n - 1)

TagMeta == <<109, 101, 116, 97>>        \* b"meta"
TagHdlr == <<104, 100, 108, 114>>       \* b"hdlr"
TagIloc == <<105, 108, 111, 99>>        \* b"iloc"
TagFtyp == <<102, 116, 121, 112>>       \* b"ftyp"
TagMdat == <<109, 100, 97, 116>>        \* b"mdat"
Libavif == <<108, 105, 98, 97, 118, 105, 102>>   \* b"libavif"

(***************************************************************************)
(* Text codecs.  Text is a sequence of code points (no surrogates: text    *)
(* comes from the Latin-1 and UTF-8 decoders below).                        *)
(***************************************************************************)
\* bytes.decode("latin-1"): byte k is code point k.
DecodeLatin1(b) == [i \in 1..Len(b) |-> b[i]]

IsCont(b, i) == i <= Len(b) /\ b[i] >= 128 /\ b[i] <= 191

\* One character of strict UTF-8 at 0-based offset s.pos of b, appended to
\* s.text; s.ok becomes FALSE where bytes.decode raises UnicodeDecodeError.
DecodeUtf8Char(b, s) ==
    LET at(k) == b[s.pos + k]
        b1 == at(1)
        bad == [s EXCEPT !.ok = FALSE]
        n == IF b1 < 128 THEN 1
             ELSE IF b1 >= 194 /\ b1 <= 223 THEN 2
             ELSE IF b1 >= 224 /\ b1 <= 239 THEN 3
             ELSE IF b1 >= 240 /\ b1 <= 244 THEN 4
             ELSE 0
        secondOk ==
            CASE b1 = 224 -> at(2) >= 160
              [] b1 = 237 -> at(2) <= 159
              [] b1 = 240 -> at(2) >= 144
              [] b1 = 244 -> at(2) <= 143
              [] OTHER    -> TRUE
        cp == CASE n = 1 -> b1
                [] n = 2 -> (b1 - 192) * 64 + (at(2) - 128)
                [] n = 3 -> (b1 - 224) * 4096 + (at(2) - 128) * 64 + (at(3) - 128)
                [] n = 4 -> (b1 - 240) * 262144 + (at(2) - 128) * 4096
                            + (at(3) - 128) * 64 + (at(4) - 128)
    IN  IF n = 0 THEN bad
        ELSE IF \E i \in 2..n : ~IsCont(b, s.pos + i) THEN bad
        ELSE IF n >= 3 /\ ~secondOk THEN bad
        ELSE [s EXCEPT !.pos = s.pos + n, !.text = s.text \o <<cp>>]

\* Up to n characters from s, until the end of b or an error.
RECURSIVE DecodeUtf8Run(_, _, _)
DecodeUtf8Run(b, s, n) ==
    IF ~s.ok \/ s.pos >= Len(b) \/ n = 0 THEN s
    ELSE IF n = 1 THEN DecodeUtf8Char(b, s)
    ELSE Bind(DecodeUtf8Run(b, s, n \div 2), LAMBDA m :
              DecodeUtf8Run(b, m, n - n \div 2))

\* bytes.decode("utf-8"), strict: [ok, text]; ok is FALSE for UnicodeDecodeError.
DecodeUtf8(b) ==
    Bind(DecodeUtf8Run(b, [ok |-> TRUE, pos |-> 0, text |-> <<>>], Len(b)), LAMBDA r :
        IF r.ok THEN [ok |-> TRUE, text |-> r.text]
        ELSE [ok |-> FALSE, text |-> <<>>])

\* One UTF-16 code unit, low byte first / high byte first.
UnitLE(u) == <<u % 256, u \div 256>>
UnitBE(u) == <<u \div 256, u % 256>>

\* The UTF-16 code units of one code point: itself, or a surrogate pair.
Utf16Units(cp) ==
    IF cp < 65536 THEN <<cp>>
    ELSE <<55296 + (cp - 65536) \div 1024, 56320 + ((cp - 65536) % 1024)>>

\* text[lo..hi] in UTF-16, low byte first.
RECURSIVE Utf16LERange(_, _, _)
Utf16LERange(text, lo, hi) ==
    IF lo > hi THEN <<>>
    ELSE IF lo = hi
    THEN LET u == Utf16Units(text[lo])
         IN  IF Len(u) = 1 THEN UnitLE(u[1]) ELSE UnitLE(u[1]) \o UnitLE(u[2])
    ELSE Utf16LERange(text, lo, (lo + hi) \div 2)
         \o Utf16LERange(text, (lo + hi) \div 2 + 1, hi)

\* str.encode("utf-16le")
EncodeUtf16LE(text) == Utf16LERange(text, 1, Len(text))

\* str.encode("ascii"), for text of code points below 128.
EncodeAscii(text) == text

(***************************************************************************)
(* _to_user_comment_bytes                                                   *)
(***************************************************************************)
AsciiPrefix == <<65, 83, 67, 73, 73, 0, 0, 0>>           \* b"ASCII\x00\x00\x00"
UnicodePrefix == <<85, 78, 73, 67, 79, 68, 69, 0>>       \* b"UNICODE\x00"

ToUserCommentBytes(text) ==
    IF \A k \in 1..Len(text) : text[k] < 128
    THEN AsciiPrefix \o EncodeAscii(text)
    ELSE UnicodePrefix \o EncodeUtf16LE(text)

(***************************************************************************)
(* zlib.decompress: [ok, data]; ok is FALSE for zlib.error.  A zlib stream  *)
(* is a 2-byte header, deflate blocks (stored, fixed Huffman, dynamic       *)
(* Huffman; bits are read from the low bit of each byte up) and the         *)
(* Adler-32 of the output; bytes after the stream are ignored.  Positions   *)
(* are bit offsets into the stream.  The decoder is a state machine, one    *)
(* step per block header, code length or literal/match:                     *)
(*   st     "header" (a block starts at pos), "lens" (reading the code      *)
(*          lengths of a dynamic block), "codes" (reading literals and      *)
(*          matches), "done", "error"                                       *)
(*   pos    the bit offset reached          out    the output so far        *)
(*   final  the block is the last one       lit, dist  the block's codes    *)
(*   clen   a dynamic block's code-length code                             *)
(*   lens   the code lengths read so far    nlen, ndist  how many to read   *)
(***************************************************************************)
\* Sums over b[lo..hi], modulo 65521: of the bytes, and of each byte times
\* the number of bytes from it to the end of b.
RECURSIVE AdlerSums(_, _, _)
AdlerSums(b, lo, hi) ==
    IF lo > hi THEN [plain |-> 0, weighted |-> 0]
    ELSE IF lo = hi
    THEN [plain |-> b[lo], weighted |-> ((Len(b) - lo + 1) * b[lo]) % 65521]
    ELSE LET mid == (lo + hi) \div 2
             l == AdlerSums(b, lo, mid)
             r == AdlerSums(b, mid + 1, hi)
         IN  [plain |-> (l.plain + r.plain) % 65521,
              weighted |-> (l.weighted + r.weighted) % 65521]

\* The Adler-32 check value of b, as 4 bytes: s1 is 1 plus the sum of the
\* bytes, s2 the sum of the successive values of s1, both modulo 65521.
Adler32(b) ==
    Bind(AdlerSums(b, 1, Len(b)), LAMBDA sums :
        ToBytesBig((Len(b) + sums.weighted) % 65521, 2)
        \o ToBytesBig((1 + sums.plain) % 65521, 2))

\* n more bits can be read at bit offset p.
BitsAvailable(z, p, n) == p + n <= 8 * Len(z)

BitAt(z, p) == (z[p \div 8 + 1] \div (2 ^ (p % 8))) % 2

\* The n bits at p as a number, first bit lowest.
RECURSIVE BitsAt(_, _, _)
BitsAt(z, p, n) == IF n = 0 THEN 0 ELSE BitAt(z, p) + 2 * BitsAt(z, p + 1, n - 1)

\* The bit offset of the next byte boundary at or after p.
ByteAligned(p) == ((p + 7) \div 8) * 8

\* The symbols (0-based) whose code length is l, in increasing order.
SymbolsOfLength(lens, l) ==
    LET HasLength(s) == lens[s + 1] = l
    IN  SelectSeq([i \in 1..Len(lens) |-> i - 1], HasLength)

RECURSIVE SymbolsByLength(_, _)
SymbolsByLength(lens, l) ==
    IF l > 15 THEN <<>> ELSE SymbolsOfLength(lens, l) \o SymbolsByLength(lens, l + 1)

\* The canonical Huffman code of a sequence of code lengths (0: no code):
\* the number of codes of each length and the symbols in code order.
HuffmanCode(lens) ==
    [count  |-> [l \in 1..15 |-> Len(SymbolsOfLength(lens, l))],
     symbol |-> SymbolsByLength(lens, 1)]

\* The code space left unused after the codes of lengths 1..l (negative:
\* the lengths are over-subscribed).
RECURSIVE CodeSpaceLeft(_, _)
CodeSpaceLeft(count, l) ==
    IF l = 0 THEN 1 ELSE 2 * CodeSpaceLeft(count, l - 1) - count[l]

\* The longest code length in use (0: no code at all).
RECURSIVE MaxBits(_, _)
MaxBits(count, l) == IF l = 0 \/ count[l] > 0 THEN l ELSE MaxBits(count, l - 1)

\* inflate_table accepts the lengths: no code at all, a complete code, or
\* (for literal/length and distance codes only) a single code of one bit.
CodeAccepted(h, isCodeLengthCode) ==
    \/ MaxBits(h.count, 15) = 0
    \/ CodeSpaceLeft(h.count, 15) = 0
    \/ /\ CodeSpaceLeft(h.count, 15) > 0
       /\ ~isCodeLengthCode
       /\ MaxBits(h.count, 15) = 1

\* Decoding one symbol, bit by bit: code is the bits read so far, first the
\* first code of length len, index the number of shorter codes.
RECURSIVE DecodeWalk(_, _, _, _, _, _, _)
DecodeWalk(h, z, p, len, code, first, index) ==
    IF len > 15 \/ ~BitsAvailable(z, p, 1) THEN [ok |-> FALSE, sym |-> 0, pos |-> p]
    ELSE IF code + BitAt(z, p) - h.count[len] < first
    THEN [ok |-> TRUE, sym |-> h.symbol[index + (code + BitAt(z, p) - first) + 1],
          pos |-> p + 1]
    ELSE DecodeWalk(h, z, p + 1, len + 1, 2 * (code + BitAt(z, p)),
                    2 * (first + h.count[len]), index + h.count[len])

\* [ok, sym, pos]: the symbol coded at p and the offset after it; not ok
\* when the bits are no code or the stream ends.
DecodeSymbol(h, z, p) == DecodeWalk(h, z, p, 1, 0, 0, 0)

LengthBase ==
    <<3, 4, 5, 6, 7, 8, 9, 10, 11, 13, 15, 17, 19, 23, 27, 31, 35, 43, 51, 59,
      67, 83, 99, 115, 131, 163, 195, 227, 258>>
LengthExtra ==
    <<0, 0, 0, 0, 0, 0, 0, 0, 1, 1, 1, 1, 2, 2, 2, 2, 3, 3, 3, 3,
      4, 4, 4, 4, 5, 5, 5, 5, 0>>
DistBase ==
    <<1, 2, 3, 4, 5, 7, 9, 13, 17, 25, 33, 49, 65, 97, 129, 193, 257, 385, 513,
      769, 1025, 1537, 2049, 3073, 4097, 6145, 8193, 12289, 16385, 24577>>
DistExtra ==
    <<0, 0, 0, 0, 1, 1, 2, 2, 3, 3, 4, 4, 5, 5, 6, 6, 7, 7, 8, 8,
      9, 9, 10, 10, 11, 11, 12, 12, 13, 13>>

\* length bytes copied from distance bytes back in out (the copy may
\* overlap what it writes).
CopyBack(out, distance, length) ==
    [i \in 1..length |-> out[Len(out) - distance + ((i - 1) % distance) + 1]]

\* The codes of a fixed-Huffman block.
FixedLiteralCode ==
    HuffmanCode([s \in 1..288 |-> IF s <= 144 THEN 8 ELSE IF s <= 256 THEN 9
                                  ELSE IF s <= 280 THEN 7 ELSE 8])

FixedDistanceCode == HuffmanCode([s \in 1..32 |-> 5])

NoCode == HuffmanCode(<<>>)

\* The order in which a dynamic block lists the lengths of its code-length code.
CodeLengthOrder == <<16, 17, 18, 0, 8, 7, 9, 6, 10, 5, 11, 4, 12, 3, 13, 2, 14, 1, 15>>

Repeated(v, n) == [i \in 1..n |-> v]

InflateStart ==
    [st |-> "header", pos |-> 16, out |-> <<>>, final |-> FALSE,
     lit |-> NoCode, dist |-> NoCode, clen |-> NoCode,
     lens |-> <<>>, nlen |-> 0, ndist |-> 0]

InflateError(s) == [s EXCEPT !.st = "error"]

\* The end of a block at bit offset p: the next block, or after the last
\* one the check value, from the next byte boundary.
EndOfBlock(z, s, p) ==
    LET at == ByteAligned(p) \div 8
    IN  IF ~s.final THEN [s EXCEPT !.st = "header", !.pos = p]
        ELSE IF Len(z) >= at + 4 /\ Slice(z, at, at + 4) = Adler32(s.out)
        THEN [s EXCEPT !.st = "done", !.pos = 8 * (at + 4)]
        ELSE InflateError(s)

\* A stored block from p, the offset after the block type: LEN, NLEN and
\* LEN bytes, from the next byte boundary.
InflateStored(z, s, p) ==
    LET at == ByteAligned(p) \div 8
        len == z[at + 1] + 256 * z[at + 2]
        nlen == z[at + 3] + 256 * z[at + 4]
    IN  IF Len(z) < at + 4 THEN InflateError(s)
        ELSE IF len + nlen # 65535 THEN InflateError(s)
        ELSE IF Len(z) < at + 4 + len THEN InflateError(s)
        ELSE EndOfBlock(z, [s EXCEPT !.out = s.out \o Slice(z, at + 4, at + 4 + len)],
                        8 * (at + 4 + len))

\* The head of a dynamic-Huffman block from p, the offset after the block
\* type: the numbers of codes and the code-length code.
InflateDynamic(z, s, p) ==
    IF ~BitsAvailable(z, p, 14) THEN InflateError(s)
    ELSE
    LET nlen == BitsAt(z, p, 5) + 257
        ndist == BitsAt(z, p + 5, 5) + 1
        ncode == BitsAt(z, p + 10, 4) + 4
        OrderIndex(sym) == CHOOSE k \in 1..19 : CodeLengthOrder[k] = sym
    IN  IF nlen > 286 \/ ndist > 30 THEN InflateError(s)
        ELSE IF ~BitsAvailable(z, p + 14, 3 * ncode) THEN InflateError(s)
        ELSE
        Bind(HuffmanCode([c \in 1..19 |->
                 IF OrderIndex(c - 1) <= ncode
                 THEN BitsAt(z, p + 14 + 3 * (OrderIndex(c - 1) - 1), 3) ELSE 0]),
             LAMBDA h :
        \* With no code-length code at all every length reads as 0, and
        \* the missing end-of-block code is an error.
        IF MaxBits(h.count, 15) = 0 \/ ~CodeAccepted(h, TRUE) THEN InflateError(s)
        ELSE [s EXCEPT !.st = "lens", !.pos = p + 14 + 3 * ncode, !.clen = h,
                       !.lens = <<>>, !.nlen = nlen, !.ndist = ndist])

\* A block starts at s.pos: the last-block bit, the block type, and the
\* head of the block.
InflateHeader(z, s) ==
    IF ~BitsAvailable(z, s.pos, 3) THEN InflateError(s)
    ELSE
    LET btype == BitsAt(z, s.pos + 1, 2)
        t == [s EXCEPT !.final = (BitAt(z, s.pos) = 1)]
    IN  CASE btype = 0 -> InflateStored(z, t, s.pos + 3)
          [] btype = 1 -> [t EXCEPT !.st = "codes", !.pos = s.pos + 3,
                                    !.lit = FixedLiteralCode,
                                    !.dist = FixedDistanceCode]
          [] btype = 2 -> InflateDynamic(z, t, s.pos + 3)
          [] OTHER     -> InflateError(s)

\* The code lengths of a dynamic block are all read: its two codes.
CodesOfLengths(s, lens, p) ==
    IF lens[256 + 1] = 0 THEN InflateError(s)
    ELSE
    Bind(HuffmanCode(SubSeq(lens, 1, s.nlen)), LAMBDA lit :
    Bind(HuffmanCode(SubSeq(lens, s.nlen + 1, s.nlen + s.ndist)), LAMBDA dist :
        IF ~CodeAccepted(lit, FALSE) \/ ~CodeAccepted(dist, FALSE) THEN InflateError(s)
        ELSE [s EXCEPT !.st = "codes", !.pos = p, !.lit = lit, !.dist = dist,
                       !.lens = lens]))

\* One symbol of the run-length coded code lengths of a dynamic block:
\* a length, or a repeat of the previous length or of zero.
ReadCodeLength(z, s) ==
    Bind(DecodeSymbol(s.clen, z, s.pos), LAMBDA c :
    LET total == s.nlen + s.ndist
        nbits == IF c.sym < 16 THEN 0
                 ELSE IF c.sym = 16 THEN 2 ELSE IF c.sym = 17 THEN 3 ELSE 7
        copy == IF c.sym < 16 THEN 1
                ELSE (IF c.sym = 18 THEN 11 ELSE 3) + BitsAt(z, c.pos, nbits)
        val == IF c.sym < 16 THEN c.sym
               ELSE IF c.sym = 16 THEN s.lens[Len(s.lens)] ELSE 0
    IN  IF ~c.ok THEN InflateError(s)
        ELSE IF ~BitsAvailable(z, c.pos, nbits) THEN InflateError(s)
        ELSE IF c.sym = 16 /\ s.lens = <<>> THEN InflateError(s)
        ELSE IF Len(s.lens) + copy > total THEN InflateError(s)
        ELSE Bind(s.lens \o Repeated(val, copy), LAMBDA lens :
                 IF Len(lens) = total THEN CodesOfLengths(s, lens, c.pos + nbits)
                 ELSE [s EXCEPT !.pos = c.pos + nbits, !.lens = lens]))

\* One symbol of a Huffman-coded block: a literal, the end of the block,
\* or a match (a length and a distance back in the output).
InflateCode(z, s) ==
    Bind(DecodeSymbol(s.lit, z, s.pos), LAMBDA c :
    IF ~c.ok THEN InflateError(s)
    ELSE IF c.sym < 256 THEN [s EXCEPT !.pos = c.pos, !.out = s.out \o <<c.sym>>]
    ELSE IF c.sym = 256 THEN EndOfBlock(z, s, c.pos)
    ELSE IF c.sym > 285 THEN InflateError(s)
    ELSE IF ~BitsAvailable(z, c.pos, LengthExtra[c.sym - 256]) THEN InflateError(s)
    ELSE
    LET lx == LengthExtra[c.sym - 256]
        length == LengthBase[c.sym - 256] + BitsAt(z, c.pos, lx)
    IN  Bind(DecodeSymbol(s.dist, z, c.pos + lx), LAMBDA d :
        IF ~d.ok \/ d.sym > 29 THEN InflateError(s)
        ELSE IF ~BitsAvailable(z, d.pos, DistExtra[d.sym + 1]) THEN InflateError(s)
        ELSE
        LET dx == DistExtra[d.sym + 1]
            distance == DistBase[d.sym + 1] + BitsAt(z, d.pos, dx)
        IN  IF distance > Len(s.out) THEN InflateError(s)
            ELSE [s EXCEPT !.pos = d.pos + dx,
                           !.out = s.out \o CopyBack(s.out, distance, length)]))

InflateStep(z, s) ==
    CASE s.st = "header" -> InflateHeader(z, s)
      [] s.st = "lens"   -> ReadCodeLength(z, s)
      [] s.st = "codes"  -> InflateCode(z, s)
      [] OTHER           -> s

\* Up to n steps from s, until the decoder stops.
RECURSIVE InflateRun(_, _, _)
InflateRun(z, s, n) ==
    IF s.st \in {"done", "error"} \/ n = 0 THEN s
    ELSE IF n = 1 THEN InflateStep(z, s)
    ELSE Bind(InflateRun(z, s, n \div 2), LAMBDA m : InflateRun(z, m, n - n \div 2))

\* Every step reads at least one bit, so 8 * Len(z) steps end the run.
ZlibDecompress(z) ==
    IF Len(z) < 2 THEN [ok |-> FALSE, data |-> <<>>]
    ELSE IF \/ (z[1] * 256 + z[2]) % 31 # 0
            \/ z[1] % 16 # 8
            \/ z[1] \div 16 > 7
            \/ (z[2] \div 32) % 2 = 1
    THEN [ok |-> FALSE, data |-> <<>>]
    ELSE Bind(InflateRun(z, InflateStart, 8 * Len(z)), LAMBDA r :
              IF r.st = "done" THEN [ok |-> TRUE, data |-> r.out]
              ELSE [ok |-> FALSE, data |-> <<>>])

(***************************************************************************)
(* _extract_sd_parameters: [present, text]; Absent is None.                 *)
(***************************************************************************)
PngSignature == <<137, 80, 78, 71, 13, 10, 26, 10>>          \* b"\x89PNG\r\n\x1a\n"
KeywordParameters == <<112, 97, 114, 97, 109, 101, 116, 101, 114, 115>>  \* b"parameters"
TagTEXt == <<116, 69, 88, 116>>
TagZTXt == <<122, 84, 88, 116>>
TagITXt == <<105, 84, 88, 116>>
TagIEND == <<73, 69, 78, 68>>

Absent == [present |-> FALSE, text |-> <<>>]
Value(text) == [present |-> TRUE, text |-> text]

\* data.find(b"\x00", pos): the 0-based index of the first NUL at or after
\* pos, or -1.
FindNul(data, pos) ==
    LET nuls == {i \in pos..(Len(data) - 1) : data[i + 1] = 0}
    IN  IF nuls = {} THEN -1 ELSE CHOOSE i \in nuls : \A j \in nuls : i <= j

\* A keyword test that accepts any non-empty keyword.
KeywordMatchesAny(data, sep) == sep > 0

\* The keyword test shared by the three branches (lines 52, 57, 68).
KeywordMatches(data, sep) == sep > 0 /\ Slice(data, 0, sep) = KeywordParameters

\* What one chunk does to the scan: "return" (with result), "continue" (the
\* chunk is skipped), "raise" (an exception, caught by the function's
\* except: the result is None) or "next" (no branch returned or continued).
TextChunk(data) ==
    LET sep == FindNul(data, 0)
    IN  IF KeywordMatches(data, sep)
        THEN [do |-> "return", result |-> Value(DecodeLatin1(SliceFrom(data, sep + 1)))]
        ELSE [do |-> "next", result |-> Absent]

ZtxtChunk(data) ==
    LET sep == FindNul(data, 0)
    IN  IF KeywordMatches(data, sep) /\ sep + 2 <= Len(data)
        THEN IF data[sep + 2] # 0 THEN [do |-> "continue", result |-> Absent]
             ELSE LET d == ZlibDecompress(SliceFrom(data, sep + 2))
                  IN  IF ~d.ok THEN [do |-> "continue", result |-> Absent]
                      ELSE [do |-> "return", result |-> Value(DecodeLatin1(d.data))]
        ELSE [do |-> "next", result |-> Absent]

ItxtChunk(data) ==
    LET sep == FindNul(data, 0)
        skip == [do |-> "continue", result |-> Absent]
        pos0 == sep + 1
        compression_flag == data[pos0 + 1]
        compression_method == data[pos0 + 2]
        lang_end == FindNul(data, pos0 + 2)
        translated_end == FindNul(data, lang_end + 1)
        text_bytes == SliceFrom(data, translated_end + 1)
        inflated == ZlibDecompress(text_bytes)
        decoded(b) == LET t == DecodeUtf8(b)
                      IN  IF t.ok THEN [do |-> "return", result |-> Value(t.text)]
                          ELSE [do |-> "raise", result |-> Absent]
    IN  IF ~KeywordMatches(data, sep) THEN [do |-> "next", result |-> Absent]
        ELSE IF pos0 + 2 > Len(data) THEN skip
        ELSE IF lang_end < 0 THEN skip
        ELSE IF translated_end < 0 THEN skip
        ELSE IF compression_flag = 1
        THEN IF compression_method # 0 THEN skip
             ELSE IF ~inflated.ok THEN skip
             ELSE decoded(inflated.data)
        ELSE decoded(text_bytes)

ChunkStep(chunk_type, data) ==
    CASE chunk_type = TagTEXt -> TextChunk(data)
      [] chunk_type = TagZTXt -> ZtxtChunk(data)
      [] chunk_type = TagITXt -> ItxtChunk(data)
      [] OTHER -> [do |-> "next", result |-> Absent]

\* The while loop of lines 37-97, reading from offset pos of the file.
RECURSIVE ScanChunks(_, _)
ScanChunks(file, pos) ==
    LET length_bytes == Slice(file, pos, pos + 4)
        length == FromBytesBig(length_bytes)
        chunk_type == Slice(file, pos + 4, pos + 8)
        data == Slice(file, pos + 8, pos + 8 + length)
        step == ChunkStep(chunk_type, data)
        next == pos + 8 + length + 4
    IN  IF Len(length_bytes) # 4 THEN Absent
        ELSE IF Len(chunk_type) # 4 \/ Len(data) # length THEN Absent
        ELSE IF step.do = "return" THEN step.result
        ELSE IF step.do = "raise" THEN Absent
        ELSE IF step.do = "continue" THEN ScanChunks(file, next)
        ELSE IF chunk_type = TagIEND THEN Absent
        ELSE ScanChunks(file, next)

ExtractSdParameters(file) ==
    IF Slice(file, 0, 8) # PngSignature THEN Absent
    ELSE ScanChunks(file, 8)

(***************************************************************************)
(* _parse_box_header                                                        *)
(***************************************************************************)
NoHeader == [ok |-> FALSE, size |-> 0, header_size |-> 0, box_type |-> <<>>]

\* A final test without the lower bound on size: a box may claim less than
\* its header.
CheckedHeaderNoLowerBound(size, header_size, box_type, offset, end) ==
    IF offset + size > end
    THEN NoHeader
    ELSE [ok |-> TRUE, size |-> size, header_size |-> header_size,
          box_type |-> box_type]

\* The final test of _parse_box_header (line 123) and its result.
CheckedHeader(size, header_size, box_type, offset, end) ==
    IF size < header_size \/ offset + size > end
    THEN NoHeader
    ELSE [ok |-> TRUE, size |-> size, header_size |-> header_size,
          box_type |-> box_type]

ParseBoxHeader(data, offset, end) ==
    IF offset + 8 > end THEN NoHeader
    ELSE LET size32   == FromBytesBig(Slice(data, offset, offset + 4))
             box_type == Slice(data, offset + 4, offset + 8)
         IN  IF size32 = 1
             THEN IF offset + 16 > end THEN NoHeader
                  ELSE CheckedHeader(
                           FromBytesBig(Slice(data, offset + 8, offset + 16)),
                           16, box_type, offset, end)
             ELSE IF size32 = 0
             THEN CheckedHeader(end - offset, 8, box_type, offset, end)
             ELSE CheckedHeader(size32, 8, box_type, offset, end)

(***************************************************************************)
(* The box walks: the three loops look for one tag from a start offset and  *)
(* end "found" (at i), "malformed" (a header that does not parse) or        *)
(* "absent" (the cursor reached the end of the range).                      *)
(***************************************************************************)
\* One iteration of a walk's loop body, for i < end: "walking" with at the
\* next cursor, or the way the loop ends.
WalkIteration(buf, i, end, tag) ==
    Bind(ParseBoxHeader(buf, i, end), LAMBDA header :
        IF ~header.ok THEN [st |-> "malformed", at |-> i, hdr |-> NoHeader]
        ELSE IF header.box_type = tag
        THEN [st |-> "found", at |-> i, hdr |-> header]
        ELSE [st |-> "walking", at |-> i + header.size, hdr |-> header])

RECURSIVE WalkBoxes(_, _, _, _)
WalkBoxes(buf, i, end, tag) ==
    IF ~(i < end) THEN [st |-> "absent", at |-> i, hdr |-> NoHeader]
    ELSE Bind(WalkIteration(buf, i, end, tag), LAMBDA r :
             IF r.st = "walking" THEN WalkBoxes(buf, r.at, end, tag) ELSE r)

(***************************************************************************)
(* _patch_iloc_offsets                                                      *)
(*                                                                          *)
(* The loops over items and extents work on `iloc`, a copy of the box; a    *)
(* loop result is [st, iloc, cursor] with st "ok", "short" (a read would    *)
(* run past the box: the function returns meta_payload) or "raise"          *)
(* (to_bytes raises OverflowError).                                         *)
(***************************************************************************)
\* iloc[a:b] = repl, for len(repl) = b - a
Splice(buf, a, b, repl) == Slice(buf, 0, a) \o repl \o SliceFrom(buf, b)

RECURSIVE PatchExtents(_, _, _, _, _, _, _, _)
PatchExtents(iloc, cursor, n, version, index_size, offset_size, length_size, delta) ==
    IF n = 0 THEN [st |-> "ok", iloc |-> iloc, cursor |-> cursor]
    ELSE
    LET hasIndex == version \in {1, 2} /\ index_size > 0
        c1 == IF hasIndex THEN cursor + index_size ELSE cursor
        old_offset == FromBytesBig(Slice(iloc, c1, c1 + offset_size))
        new_offset == old_offset + delta
        c2 == c1 + offset_size
        c3 == c2 + length_size
    IN  IF hasIndex /\ Len(iloc) < cursor + index_size
        THEN [st |-> "short", iloc |-> iloc, cursor |-> cursor]
        ELSE IF Len(iloc) < c1 + offset_size
        THEN [st |-> "short", iloc |-> iloc, cursor |-> c1]
        ELSE IF offset_size > 0 /\ ~CanToBytes(new_offset, offset_size)
        THEN [st |-> "raise", iloc |-> iloc, cursor |-> c1]
        ELSE LET iloc2 == IF offset_size > 0
                          THEN Splice(iloc, c1, c2, ToBytesBig(new_offset, offset_size))
                          ELSE iloc
             IN  IF Len(iloc2) < c2 + length_size
                 THEN [st |-> "short", iloc |-> iloc2, cursor |-> c2]
                 ELSE PatchExtents(iloc2, c3, n - 1, version, index_size,
                                   offset_size, length_size, delta)

RECURSIVE PatchItems(_, _, _, _, _, _, _, _, _)
PatchItems(iloc, cursor, n, version, index_size, offset_size, length_size, base_offset_size, delta) ==
    IF n = 0 THEN [st |-> "ok", iloc |-> iloc, cursor |-> cursor]
    ELSE
    LET short(c) == [st |-> "short", iloc |-> iloc, cursor |-> c]
        idw == IF version < 2 THEN 2 ELSE 4
        c1  == cursor + idw                                      \* item_ID
        c2  == IF version \in {1, 2} THEN c1 + 2 ELSE c1         \* construction_method
        c3  == c2 + 2                                            \* data_reference_index
        c4  == c3 + base_offset_size
        extent_count == FromBytesBig(Slice(iloc, c4, c4 + 2))
        c5  == c4 + 2
    IN  IF Len(iloc) < cursor + idw THEN short(cursor)
        ELSE IF version \in {1, 2} /\ Len(iloc) < c1 + 2 THEN short(c1)
        ELSE IF Len(iloc) < c2 + 2 THEN short(c2)
        ELSE IF Len(iloc) < c3 + base_offset_size THEN short(c3)
        ELSE IF Len(iloc) < c4 + 2 THEN short(c4)
        ELSE LET ex == PatchExtents(iloc, c5, extent_count, version, index_size,
                                    offset_size, length_size, delta)
             IN  IF ex.st # "ok" THEN ex
                 ELSE PatchItems(ex.iloc, ex.cursor, n - 1, version, index_size,
                                 offset_size, length_size, base_offset_size, delta)

\* The version byte the patcher reads: iloc[8], whatever the header size.
IlocVersion(iloc, header_size) == iloc[8 + 1]

\* The body of `if box_type == b"iloc":` (lines 141-208) for the box at i.
PatchIlocBox(meta_payload, i, size, header_size, delta) ==
    LET same == [raised |-> FALSE, payload |-> meta_payload]
        iloc == Slice(meta_payload, i, i + size)
        cursor0 == header_size + 4
    IN  IF Len(iloc) < cursor0 + 2 THEN same
        ELSE
        LET version == IlocVersion(iloc, header_size)
            offset_size == iloc[cursor0 + 1] \div 16
            length_size == iloc[cursor0 + 1] % 16
            base_offset_size == iloc[cursor0 + 2] \div 16
            index_size == IF version \in {1, 2} THEN iloc[cursor0 + 2] % 16 ELSE 0
            cursor1 == cursor0 + 2
            item_count_size == IF version < 2 THEN 2 ELSE 4
            item_count == FromBytesBig(Slice(iloc, cursor1, cursor1 + item_count_size))
            cursor2 == cursor1 + item_count_size
        IN  IF version \notin {0, 1, 2} THEN same
            ELSE IF Len(iloc) < cursor1 + item_count_size THEN same
            ELSE LET r == PatchItems(iloc, cursor2, item_count, version, index_size,
                                     offset_size, length_size, base_offset_size, delta)
                 IN  IF r.st = "short" THEN same
                     ELSE IF r.st = "raise"
                     THEN [raised |-> TRUE, payload |-> meta_payload]
                     ELSE [raised |-> FALSE,
                           payload |-> Slice(meta_payload, 0, i) \o r.iloc
                                       \o SliceFrom(meta_payload, i + size)]

\* _patch_iloc_offsets(meta_payload, delta): [raised, payload]
PatchIlocOffsets(meta_payload, delta) ==
    IF Len(meta_payload) < 4 THEN [raised |-> FALSE, payload |-> meta_payload]
    ELSE Bind(WalkBoxes(meta_payload, 4, Len(meta_payload), TagIloc), LAMBDA w :
             IF w.st # "found" THEN [raised |-> FALSE, payload |-> meta_payload]
             ELSE PatchIlocBox(meta_payload, w.at, w.hdr.size, w.hdr.header_size, delta))

(***************************************************************************)
(* _inject_handler_description: [outcome, data], data the file afterwards.  *)
(* File I/O is taken to succeed (one read, at most one write).              *)
(***************************************************************************)
\* The name test of line 274: the name field is empty or a lone NUL.
NameIsEmpty(current_name) == current_name \in {<<>>, <<0>>}

\* Line 273: the name field is what follows the 24 bytes of fixed fields.
CurrentNameAfterLongerPrefix(hdlr_payload) == SliceFrom(hdlr_payload, 32)

CurrentName(hdlr_payload) == SliceFrom(hdlr_payload, 24)

\* Lines 277-294, for the meta and hdlr boxes found.
RebuildFile(data, meta_offset, meta_size, meta_payload, hdlr_local_offset, hdlr_size, hdlr_payload, current_name, description) ==
    LET noop == [outcome |-> "noop", data |-> data]
        raised == [outcome |-> "raised", data |-> data]
        new_name == description \o <<0>>
        delta == Len(new_name) - Len(current_name)
        new_hdlr_payload == Slice(hdlr_payload, 0, 24) \o new_name
        new_hdlr_size == hdlr_size + delta
        new_hdlr_box == ToBytesBig(new_hdlr_size, 4) \o TagHdlr \o new_hdlr_payload
        meta_before == Slice(meta_payload, 0, hdlr_local_offset)
        meta_after == SliceFrom(meta_payload, hdlr_local_offset + hdlr_size)
        new_meta_size == meta_size + delta
    IN  IF delta <= 0 THEN noop
        ELSE IF ~CanToBytes(new_hdlr_size, 4) THEN raised
        ELSE
        Bind(meta_before \o new_hdlr_box \o meta_after, LAMBDA updated_meta_payload :
        Bind(PatchIlocOffsets(updated_meta_payload, delta), LAMBDA patched :
            LET new_meta_box == ToBytesBig(new_meta_size, 4) \o TagMeta \o patched.payload
            IN  IF patched.raised THEN raised
                ELSE IF ~CanToBytes(new_meta_size, 4) THEN raised
                ELSE [outcome |-> "written",
                      data |-> Slice(data, 0, meta_offset) \o new_meta_box
                               \o SliceFrom(data, meta_offset + meta_size)]))

InjectHandlerDescription(data, description) ==
    LET noop == [outcome |-> "noop", data |-> data]
    IN  Bind(WalkBoxes(data, 0, Len(data), TagMeta), LAMBDA top :
        IF top.st # "found" THEN noop
        ELSE
        LET meta_offset == top.at
            meta_size == top.hdr.size
            meta_start == meta_offset + top.hdr.header_size
            meta_end == meta_offset + meta_size
        IN  IF meta_end > Len(data) \/ meta_start + 4 > meta_end THEN noop
            ELSE
            Bind(Slice(data, meta_start, meta_end), LAMBDA meta_payload :
            Bind(WalkBoxes(meta_payload, 4, Len(meta_payload), TagHdlr), LAMBDA nested :
            IF nested.st # "found" THEN noop
            ELSE
            LET hdlr_local_offset == nested.at
                hdlr_size == nested.hdr.size
            IN  Bind(Slice(meta_payload, hdlr_local_offset + nested.hdr.header_size,
                           hdlr_local_offset + hdlr_size), LAMBDA hdlr_payload :
                Bind(CurrentName(hdlr_payload), LAMBDA current_name :
                IF Len(hdlr_payload) < 24 THEN noop
                ELSE IF ~NameIsEmpty(current_name) THEN noop
                ELSE RebuildFile(data, meta_offset, meta_size, meta_payload,
                                 hdlr_local_offset, hdlr_size, hdlr_payload,
                                 current_name, description))))))

(***************************************************************************)
(* Input files.  A shape names how one ISOBMFF file is laid out; BuildAvif  *)
(* writes its bytes.  Box forms: "n" a 32-bit size, "x" size field 1 and a  *)
(* 64-bit size (16-byte header), "z" size field 0 (to the end of the        *)
(* enclosing range; such a box is laid out last).                           *)
(***************************************************************************)
Box(tag, payload, form) ==
    CASE form = "n" -> ToBytesBig(8 + Len(payload), 4) \o tag \o payload
      [] form = "z" -> <<0, 0, 0, 0>> \o tag \o payload
      [] form = "x" -> <<0, 0, 0, 1>> \o tag \o ToBytesBig(16 + Len(payload), 8)
                       \o payload

RECURSIVE IlocExtents(_, _, _, _, _, _)
IlocExtents(offsets, k, hasIndex, index_size, offset_size, length_size) ==
    IF k > Len(offsets) THEN <<>>
    ELSE (IF hasIndex THEN ToBytesBig(k, index_size) ELSE <<>>)
         \o ToBytesBig(offsets[k], offset_size)
         \o ToBytesBig(IF length_size = 0 THEN 0 ELSE 9, length_size)
         \o IlocExtents(offsets, k + 1, hasIndex, index_size, offset_size, length_size)

\* layout: the version whose field layout is written (an unsupported
\* version byte is written over a version 0 layout).
RECURSIVE IlocItems(_, _, _, _, _, _, _)
IlocItems(items, k, layout, index_size, offset_size, length_size, base_offset_size) ==
    IF k > Len(items) THEN <<>>
    ELSE ToBytesBig(k, IF layout < 2 THEN 2 ELSE 4)
         \o (IF layout \in {1, 2} THEN <<0, 0>> ELSE <<>>)
         \o <<0, 0>>
         \o Zeros(base_offset_size)
         \o ToBytesBig(Len(items[k]), 2)
         \o IlocExtents(items[k], 1, layout \in {1, 2} /\ index_size > 0,
                        index_size, offset_size, length_size)
         \o IlocItems(items, k + 1, layout, index_size, offset_size, length_size,
                      base_offset_size)

\* The payload of an iloc box: items is a sequence of items, each the
\* sequence of its extent offsets.
IlocPayload(version, index_size, offset_size, length_size, base_offset_size, items) ==
    LET layout == IF version \in {0, 1, 2} THEN version ELSE 0
    IN  <<version, 0, 0, 0>>
        \o <<offset_size * 16 + length_size,
             base_offset_size * 16 + (IF layout \in {1, 2} THEN index_size ELSE 0)>>
        \o ToBytesBig(Len(items), IF layout < 2 THEN 2 ELSE 4)
        \o IlocItems(items, 1, layout, index_size, offset_size, length_size,
                     base_offset_size)

TwoItems == <<(<<100>>), (<<500>>)>>

RECURSIVE ShiftExtents(_, _)
ShiftExtents(offsets, delta) ==
    IF offsets = <<>> THEN <<>>
    ELSE <<offsets[1] + delta>> \o ShiftExtents(Tail(offsets), delta)

RECURSIVE ShiftItems(_, _)
ShiftItems(items, delta) ==
    IF items = <<>> THEN <<>>
    ELSE <<ShiftExtents(items[1], delta)>> \o ShiftItems(Tail(items), delta)

IlocKinds == {"none", "v0", "v1", "v2", "v3", "trunc", "ovf"}

\* The iloc box of a file shape, its extent offsets shifted by delta.
IlocOfKind(kind, delta) ==
    CASE kind = "none"  -> <<>>
      [] kind = "v0"    -> Box(TagIloc, IlocPayload(0, 0, 4, 4, 0, ShiftItems(TwoItems, delta)), "n")
      [] kind = "v1"    -> Box(TagIloc, IlocPayload(1, 2, 4, 4, 4, ShiftItems(TwoItems, delta)), "n")
      [] kind = "v2"    -> Box(TagIloc, IlocPayload(2, 0, 2, 1, 0, ShiftItems(TwoItems, delta)), "n")
      [] kind = "v3"    -> Box(TagIloc, IlocPayload(3, 0, 4, 4, 0, ShiftItems(TwoItems, delta)), "n")
      [] kind = "trunc" ->
            LET p == IlocPayload(0, 0, 4, 4, 0, ShiftItems(TwoItems, delta))
            IN  Box(TagIloc, SubSeq(p, 1, Len(p) - 3), "n")
      [] kind = "ovf"   -> Box(TagIloc, IlocPayload(0, 0, 1, 1, 0, <<(<<100 + delta>>), (<<250 + delta>>)>>), "n")

NameOfKind(kind) ==
    CASE kind = "empty" -> <<>>
      [] kind = "nul"   -> <<0>>
      [] kind = "set"   -> <<120, 0>>
      [] kind = "done"  -> Libavif \o <<0>>

\* version/flags, pre_defined, handler_type b"pict", 12 reserved bytes
HdlrFixedFields == Zeros(8) \o <<112, 105, 99, 116>> \o Zeros(12)

HdlrOfShape(s, name) ==
    CASE s.hdlr = "none"  -> <<>>
      [] s.hdlr = "short" -> Box(TagHdlr, Zeros(20), "n")
      [] OTHER            -> Box(TagHdlr, HdlrFixedFields \o name, s.hdlr)

MetaOfShape(s, name, delta) ==
    LET hdlr == HdlrOfShape(s, name)
        iloc == IlocOfKind(s.iloc, delta)
        children == IF s.ilocFirst THEN iloc \o hdlr ELSE hdlr \o iloc
    IN  CASE s.meta = "none"     -> <<>>
          [] s.meta = "oversize" ->
                ToBytesBig(8 + 4 + Len(children) + 40, 4) \o TagMeta
                \o <<0, 0, 0, 0>> \o children
          [] OTHER -> Box(TagMeta, <<0, 0, 0, 0>> \o children, s.meta)

FtypBox == Box(TagFtyp, <<97, 118, 105, 102>>, "n")

MdatOfShape(s) == IF s.meta = "z" THEN <<>> ELSE Box(TagMdat, <<1, 2>>, "n")

FileOfShape(s, name, delta) ==
    FtypBox \o MetaOfShape(s, name, delta) \o MdatOfShape(s)

BuildAvif(s) == FileOfShape(s, NameOfKind(s.name), 0)

Shapes ==
    { s \in [meta : {"n", "z", "x"}, hdlr : {"n", "z", "x"},
             name : {"empty", "nul", "set"}, iloc : IlocKinds, ilocFirst : BOOLEAN] :
        s.hdlr = "z" => s.ilocFirst }
    \cup [meta : {"none", "oversize"}, hdlr : {"n"}, name : {"empty"},
          iloc : {"v0"}, ilocFirst : {FALSE}]
    \cup [meta : {"n"}, hdlr : {"none", "short"}, name : {"empty"},
          iloc : {"none", "v0"}, ilocFirst : {FALSE}]

(***************************************************************************)
(* SpecInject: _inject_handler_description called up to MaxCalls times on   *)
(* one file.                                                                *)
(***************************************************************************)
MaxCalls == 2

\* The variables of the components a specification does not exercise.
InjectIdle ==
    /\ avif = <<>> /\ avif0 = <<>> /\ avif1 = <<>>
    /\ calls = 0 /\ outcome = "none" /\ shape = "none"

ExtractIdle ==
    /\ png = <<>> /\ chunks = <<>>
    /\ parameters = [present |-> FALSE, text |-> <<>>] /\ extracted = FALSE

EncodeIdle == commentText = <<>> /\ comment = <<>> /\ encoded = FALSE

PatchIdle ==
    /\ metaPayload = <<>> /\ ilocDelta = 0 /\ table = "none"
    /\ patchResult = [raised |-> FALSE, payload |-> <<>>] /\ patchDone = FALSE

WalkIdle == walk = "none" /\ wbuf = <<>> /\ wcur = 0 /\ wstate = "none"

WorkerIdle ==
    /\ wpc = "idle" /\ dryrun = FALSE /\ pngDecodes = FALSE /\ pngExists = FALSE
    /\ avifExists = FALSE /\ exif = [present |-> FALSE, bytes |-> <<>>]
    /\ ret = "none"

InitInject ==
    /\ shape \in Shapes
    /\ avif = BuildAvif(shape)
    /\ avif0 = avif
    /\ avif1 = avif
    /\ calls = 0
    /\ outcome = "none"
    /\ ExtractIdle /\ EncodeIdle /\ PatchIdle /\ WalkIdle /\ WorkerIdle

Inject ==
    /\ calls < MaxCalls
    /\ \E r \in {InjectHandlerDescription(avif, Libavif)} :
           /\ avif' = r.data
           /\ outcome' = r.outcome
           /\ avif1' = IF calls = 0 THEN r.data ELSE avif1
    /\ calls' = calls + 1
    /\ UNCHANGED <<avif0, shape, extractVars, encodeVars, patchVars, walkVars, workerVars>>

NextInject == Inject

SpecInject == InitInject /\ [][NextInject]_vars

\* The delta the injector computes for a file of this shape.
DeltaOf(s) == Len(Libavif) + 1 - Len(NameOfKind(s.name))

\* The iloc table of the shape is one the patcher accepts and can shift.
IlocPatchable(s) == s.iloc \in {"none", "v0", "v1", "v2"}

HeaderLen(form) == IF form = "x" THEN 16 ELSE 8

\* The fully patched file, as the claim describes it: the description in the
\* hdlr name field, the hdlr and meta size fields grown by delta, every iloc
\* extent offset shifted by delta, everything else as it was.
FullyPatched(s) ==
    LET delta == DeltaOf(s)
        hdlr0 == HdlrOfShape(s, NameOfKind(s.name))
        iloc0 == IlocOfKind(s.iloc, 0)
        hdlr_size0 == HeaderLen(s.hdlr) + 24 + Len(NameOfKind(s.name))
        meta_size0 == HeaderLen(s.meta) + 4 + Len(hdlr0) + Len(iloc0)
        hdlr1 == ToBytesBig(hdlr_size0 + delta, 4) \o TagHdlr
                 \o HdlrFixedFields \o Libavif \o <<0>>
        iloc1 == IlocOfKind(s.iloc, delta)
        children1 == IF s.ilocFirst THEN iloc1 \o hdlr1 ELSE hdlr1 \o iloc1
    IN  FtypBox
        \o ToBytesBig(meta_size0 + delta, 4) \o TagMeta \o <<0, 0, 0, 0>> \o children1
        \o MdatOfShape(s)

\* C1: after a call the file is either byte-for-byte the original or the
\* fully patched buffer; a failure or rejection inside the iloc patch
\* (unsupported version, truncated table, offset overflow) leaves it untouched.
C1_AllOrNothing ==
    calls >= 1 =>
        \/ avif = avif0
        \/ IlocPatchable(shape) /\ avif = FullyPatched(shape)

NoSuchTag == <<>>

\* Every box from offset i tiles buf exactly to its end.
Tiles(buf, i) == WalkBoxes(buf, i, Len(buf), NoSuchTag).st = "absent"

\* Re-parsing a written file: the meta box and the boxes after it tile the
\* file, the boxes inside meta tile its payload, the hdlr box is its header,
\* the 24 fixed bytes and the description, and the file grew by delta.
ReparsesWell(data, data0, delta) ==
    LET m == WalkBoxes(data, 0, Len(data), TagMeta)
        payload == Slice(data, m.at + m.hdr.header_size, m.at + m.hdr.size)
        h == WalkBoxes(payload, 4, Len(payload), TagHdlr)
    IN  /\ m.st = "found"
        /\ Tiles(data, m.at + m.hdr.size)
        /\ Tiles(payload, 4)
        /\ h.st = "found"
        /\ h.hdr.size = h.hdr.header_size + 24 + Len(Libavif) + 1
        /\ Len(data) = Len(data0) + delta

\* C2: whatever the header width and size-field form of the original meta
\* and hdlr boxes, a written result re-parses to a meta box and a hdlr box
\* whose sizes match their contents, and the file is delta bytes longer.
C2_StructuralInvariant ==
    (calls = 1 /\ outcome = "written") => ReparsesWell(avif, avif0, DeltaOf(shape))

\* C3: calling the injector again leaves the bytes the first call left.
C3_Idempotent == calls >= 1 => avif = avif1

\* The first call wrote the description and a second call has run.
C3_Witness == calls = 2 /\ avif1 # avif0 /\ outcome = "noop" /\ avif = avif1

(***************************************************************************)
(* PNG input files: the signature and a sequence of chunks, each of one     *)
(* kind.  The CRC is written as zeros (the reader never verifies it).       *)
(***************************************************************************)
Chunk(tag, data) == ToBytesBig(Len(data), 4) \o tag \o data \o <<0, 0, 0, 0>>

\* str.encode("utf-8")
RECURSIVE EncodeUtf8(_)
EncodeUtf8(t) ==
    IF t = <<>> THEN <<>>
    ELSE LET cp == t[1]
         IN  (IF cp < 128 THEN <<cp>>
              ELSE IF cp < 2048 THEN <<192 + cp \div 64, 128 + (cp % 64)>>
              ELSE IF cp < 65536
              THEN <<224 + cp \div 4096, 128 + ((cp \div 64) % 64), 128 + (cp % 64)>>
              ELSE <<240 + cp \div 262144, 128 + ((cp \div 4096) % 64),
                     128 + ((cp \div 64) % 64), 128 + (cp % 64)>>)
             \o EncodeUtf8(Tail(t))

\* A zlib stream holding b in one stored block (zlib.compress(b, 0)).
ZlibStored(b) ==
    <<120, 1, 1, Len(b) % 256, Len(b) \div 256,
      (65535 - Len(b)) % 256, (65535 - Len(b)) \div 256>>
    \o b \o Adler32(b)

\* zlib.compress(b"abababab"): one fixed-Huffman block, two literals and
\* a match of length 6 at distance 2.
ZlibFixedHuffman ==
    <<120, 156, 75, 76, 74, 4, 67, 0, 13, 188, 3, 13>>

\* b"aaaaaaaaaaaaaab" as zlib writes it with Z_HUFFMAN_ONLY at level 1: one
\* dynamic-Huffman block of literals.
ZlibDynamicHuffman ==
    <<120, 1, 5, 193, 1, 1, 0, 0, 0, 128, 144, 173, 250, 63, 34, 0, 128, 6,
      45, 136, 5, 177>>

\* The same with its last check byte flipped: decompression fails.
ZlibCorrupt(b) ==
    LET z == ZlibStored(b)
    IN  SubSeq(z, 1, Len(z) - 1) \o <<(z[Len(z)] + 1) % 256>>

ChunkKinds ==
    {"tEXt", "tEXt_other", "zTXt", "zTXt_huff", "zTXt_m1", "zTXt_bad", "iTXt",
     "iTXt_z", "iTXt_dyn", "iTXt_m1", "iTXt_nolang", "iTXt_badutf8", "IEND"}

\* The value a chunk of this kind carries under the keyword.
CarriedValue(kind) ==
    CASE kind = "tEXt"    -> <<83, 233>>
      [] kind = "zTXt"    -> <<90, 255>>
      [] kind = "iTXt"    -> <<105, 29483>>
      [] kind = "iTXt_z"  -> <<122, 128512>>
      [] kind = "zTXt_huff" -> <<97, 98, 97, 98, 97, 98, 97, 98>>
      [] kind = "iTXt_dyn"  -> Repeated(97, 14) \o <<98>>
      [] OTHER            -> <<63>>

KeywordComment == <<67, 111, 109, 109, 101, 110, 116>>     \* b"Comment"

ChunkOfKind(kind) ==
    LET v == CarriedValue(kind)
        kw == KeywordParameters \o <<0>>
    IN  CASE kind = "tEXt"         -> Chunk(TagTEXt, kw \o v)
          [] kind = "tEXt_other"   -> Chunk(TagTEXt, KeywordComment \o <<0>> \o v)
          [] kind = "zTXt"         -> Chunk(TagZTXt, kw \o <<0>> \o ZlibStored(v))
          [] kind = "zTXt_huff"    -> Chunk(TagZTXt, kw \o <<0>> \o ZlibFixedHuffman)
          [] kind = "zTXt_m1"      -> Chunk(TagZTXt, kw \o <<1>> \o ZlibStored(v))
          [] kind = "zTXt_bad"     -> Chunk(TagZTXt, kw \o <<0>> \o ZlibCorrupt(v))
          [] kind = "iTXt"         -> Chunk(TagITXt, kw \o <<0, 0, 0, 0>> \o EncodeUtf8(v))
          [] kind = "iTXt_z"       ->
                Chunk(TagITXt, kw \o <<1, 0, 0, 0>> \o ZlibStored(EncodeUtf8(v)))
          [] kind = "iTXt_dyn"     ->
                Chunk(TagITXt, kw \o <<1, 0, 0, 0>> \o ZlibDynamicHuffman)
          [] kind = "iTXt_m1"      ->
                Chunk(TagITXt, kw \o <<1, 1, 0, 0>> \o ZlibStored(EncodeUtf8(v)))
          [] kind = "iTXt_nolang"  -> Chunk(TagITXt, kw \o <<0, 0, 101, 110>>)
          [] kind = "iTXt_badutf8" -> Chunk(TagITXt, kw \o <<0, 0, 0, 0, 63, 255>>)
          [] kind = "IEND"         -> Chunk(TagIEND, <<>>)

RECURSIVE ChunksOfKinds(_)
ChunksOfKinds(kinds) ==
    IF kinds = <<>> THEN <<>>
    ELSE ChunkOfKind(kinds[1]) \o ChunksOfKinds(Tail(kinds))

BuildPng(kinds) == PngSignature \o ChunksOfKinds(kinds)

MaxChunks == 3

ChunkSequences == UNION { [1..n -> ChunkKinds] : n \in 0..MaxChunks }

(***************************************************************************)
(* SpecExtract: _extract_sd_parameters applied to one PNG file.             *)
(***************************************************************************)
InitExtract ==
    /\ chunks \in ChunkSequences
    /\ png = BuildPng(chunks)
    /\ parameters = Absent
    /\ extracted = FALSE
    /\ InjectIdle /\ EncodeIdle /\ PatchIdle /\ WalkIdle /\ WorkerIdle

Extract ==
    /\ ~extracted
    /\ parameters' = ExtractSdParameters(png)
    /\ extracted' = TRUE
    /\ UNCHANGED <<png, chunks, injectVars, encodeVars, patchVars, walkVars, workerVars>>

NextExtract == Extract

SpecExtract == InitExtract /\ [][NextExtract]_vars

\* The chunk carries the keyword "parameters" in a text chunk.
Matching(kind) == kind \notin {"tEXt_other", "IEND"}

\* The chunk is skipped: unsupported compression method, decompression
\* failure, or an iTXt without its language field.
Skipped(kind) == kind \in {"zTXt_m1", "zTXt_bad", "iTXt_m1", "iTXt_nolang"}

\* The first chunk, at or before IEND, that matches and is not skipped
\* ("none" when there is none).
RECURSIVE FirstCandidate(_)
FirstCandidate(kinds) ==
    IF kinds = <<>> THEN "none"
    ELSE IF Matching(kinds[1]) /\ ~Skipped(kinds[1]) THEN kinds[1]
    ELSE IF kinds[1] = "IEND" THEN "none"
    ELSE FirstCandidate(Tail(kinds))

\* C7 as stated: the extractor returns exactly the value carried by the
\* earliest matching chunk (at or before IEND) that is not skipped.
C7_FirstMatchAsStated ==
    (extracted /\ FirstCandidate(chunks) # "none") =>
        /\ parameters.present
        /\ FirstCandidate(chunks) # "iTXt_badutf8" =>
               parameters.text = CarriedValue(FirstCandidate(chunks))

\* C7, amended: the extractor returns exactly the value carried by the
\* earliest matching chunk (at or before IEND) that is not skipped, unless
\* that chunk is an iTXt whose value is not valid UTF-8: then the scan ends
\* and the result is absent.  With no such chunk the result is absent.
C7_FirstMatch ==
    extracted =>
        LET c == FirstCandidate(chunks)
        IN  IF c = "none" \/ c = "iTXt_badutf8" THEN parameters = Absent
            ELSE parameters = Value(CarriedValue(c))

\* A skipped chunk, then the chunk whose value is returned, then another
\* matching chunk that is not.
C7_Witness ==
    /\ extracted
    /\ Len(chunks) = 3
    /\ Skipped(chunks[1])
    /\ chunks[2] = "iTXt_dyn" /\ chunks[3] = "tEXt"
    /\ parameters = Value(CarriedValue("iTXt_dyn"))

(***************************************************************************)
(* SpecEncode: _to_user_comment_bytes applied to one text.                  *)
(***************************************************************************)
MaxTextLen == 3

\* "A", DEL, U+0080, e-acute, a CJK ideograph, an emoji outside the BMP
CodePoints == {65, 127, 128, 233, 29483, 128512}

Texts == UNION { [1..n -> CodePoints] : n \in 0..MaxTextLen }

InitEncode ==
    /\ commentText \in Texts
    /\ comment = <<>>
    /\ encoded = FALSE
    /\ InjectIdle /\ ExtractIdle /\ PatchIdle /\ WalkIdle /\ WorkerIdle

Encode ==
    /\ ~encoded
    /\ comment' = ToUserCommentBytes(commentText)
    /\ encoded' = TRUE
    /\ UNCHANGED <<commentText, injectVars, extractVars, patchVars, walkVars, workerVars>>

NextEncode == Encode

SpecEncode == InitEncode /\ [][NextEncode]_vars

\* str.encode("utf-16be"), the encoding the tests expect
RECURSIVE Utf16BERange(_, _, _)
Utf16BERange(text, lo, hi) ==
    IF lo > hi THEN <<>>
    ELSE IF lo = hi
    THEN LET u == Utf16Units(text[lo])
         IN  IF Len(u) = 1 THEN UnitBE(u[1]) ELSE UnitBE(u[1]) \o UnitBE(u[2])
    ELSE Utf16BERange(text, lo, (lo + hi) \div 2)
         \o Utf16BERange(text, (lo + hi) \div 2 + 1, hi)

EncodeUtf16BE(t) == Utf16BERange(t, 1, Len(t))

\* C9: for every text, ASCII-only or not, the encoder returns UNICODE_PREFIX
\* followed by the big-endian UTF-16 encoding of the text.
C9_UnicodePrefixUtf16BE ==
    encoded => comment = UnicodePrefix \o EncodeUtf16BE(commentText)

(***************************************************************************)
(* SpecPatch: _patch_iloc_offsets applied to one meta payload.  A table     *)
(* descriptor gives the iloc box's header form, version byte, field widths, *)
(* items (each the sequence of its extent offsets), the bytes cut from the  *)
(* end of the table, and the box laid out before the iloc box.              *)
(***************************************************************************)
TagFree == <<102, 114, 101, 101>>       \* b"free"

ItemLists ==
    { <<>>, <<(<<10>>)>>, <<(<<10>>), (<<250>>)>>, <<(<<10, 250>>), (<<>>)>> }

Tables ==
    [form : {"n", "x"}, version : 0..3, index_size : {0, 2}, offset_size : {0, 1, 4},
     items : ItemLists, cut : {0, 3}, lead : {"none", "hdlr", "bad", "only"}]

Deltas == {7, 8}

IlocBoxOf(t, delta) ==
    LET p == IlocPayload(t.version, t.index_size, t.offset_size, 4,
                         2 * t.index_size, ShiftItems(t.items, delta))
    IN  Box(TagIloc, SubSeq(p, 1, Len(p) - t.cut), t.form)

\* lead "only": no iloc box at all; "bad": a box claiming 4 bytes before it.
MetaPayloadOf(t, delta) ==
    <<0, 0, 0, 0>>
    \o (CASE t.lead = "none" -> <<>>
          [] t.lead = "bad"  -> <<0, 0, 0, 4>> \o TagFree
          [] OTHER           -> Box(TagHdlr, HdlrFixedFields, "n"))
    \o (IF t.lead = "only" THEN <<>> ELSE IlocBoxOf(t, delta))
    \o Box(TagFree, <<1, 2, 3>>, "n")

InitPatch ==
    /\ table \in Tables
    /\ ilocDelta \in Deltas
    /\ metaPayload = MetaPayloadOf(table, 0)
    /\ patchResult = [raised |-> FALSE, payload |-> <<>>]
    /\ patchDone = FALSE
    /\ InjectIdle /\ ExtractIdle /\ EncodeIdle /\ WalkIdle /\ WorkerIdle

Patch ==
    /\ ~patchDone
    /\ patchResult' = PatchIlocOffsets(metaPayload, ilocDelta)
    /\ patchDone' = TRUE
    /\ UNCHANGED <<metaPayload, ilocDelta, table, injectVars, extractVars, encodeVars,
                   walkVars, workerVars>>

NextPatch == Patch

SpecPatch == InitPatch /\ [][NextPatch]_vars

\* The table is a well-formed iloc table of version 0, 1 or 2 in the payload.
WellFormedTable(t) ==
    t.version \in {0, 1, 2} /\ t.cut = 0 /\ t.lead \in {"none", "hdlr"}

\* Every old_offset + delta fits in offset_size bytes.
OffsetsFit(t, delta) ==
    \A i \in 1..Len(t.items) : \A j \in 1..Len(t.items[i]) :
        t.offset_size = 0 \/ CanToBytes(t.items[i][j] + delta, t.offset_size)

\* C4: for a well-formed iloc table of version 0, 1 or 2 and a delta that
\* fits, the patcher returns the payload with every extent offset grown by
\* delta and every other byte unchanged.
C4_EveryOffsetShifted ==
    (patchDone /\ WellFormedTable(table) /\ OffsetsFit(table, ilocDelta)) =>
        /\ ~patchResult.raised
        /\ patchResult.payload = MetaPayloadOf(table, ilocDelta)

\* The cases the patcher must leave the payload alone in: no iloc box, a
\* malformed nested box header, an unsupported version, a field read that
\* runs past the iloc box.
MustReject(t) ==
    \/ t.lead \in {"only", "bad"}
    \/ t.version \notin {0, 1, 2}
    \/ t.cut > 0 /\ t.items # <<>>

\* C6: in each of those cases the patcher returns the input payload
\* byte-for-byte.
C6_AtomicOnFailure ==
    (patchDone /\ MustReject(table)) =>
        /\ ~patchResult.raised
        /\ patchResult.payload = metaPayload

(***************************************************************************)
(* SpecWalk: one of the three box walks, an iteration of its while loop at  *)
(* a time.  The loop is sequential code: an iteration that can run does     *)
(* (weak fairness).                                                         *)
(***************************************************************************)
MaxBoxes == 2

WalkBoxKinds == {"meta", "hdlr_x", "iloc", "free_z", "small", "ext0", "over"}

WalkBoxOfKind(kind) ==
    CASE kind = "meta"   -> Box(TagMeta, <<0, 0, 0, 0>>, "n")
      [] kind = "hdlr_x" -> Box(TagHdlr, <<7>>, "x")
      [] kind = "iloc"   -> Box(TagIloc, <<>>, "n")
      [] kind = "free_z" -> Box(TagFree, <<1, 2>>, "z")
      [] kind = "small"  -> <<0, 0, 0, 4>> \o TagFree                  \* size 4
      [] kind = "ext0"   -> <<0, 0, 0, 1>> \o TagFree \o Zeros(8)      \* 64-bit size 0
      [] kind = "over"   -> <<0, 0, 0, 99>> \o TagFree \o <<1>>        \* size past the end

RECURSIVE WalkBoxesOfKinds(_)
WalkBoxesOfKinds(kinds) ==
    IF kinds = <<>> THEN <<>>
    ELSE WalkBoxOfKind(kinds[1]) \o WalkBoxesOfKinds(Tail(kinds))

WalkBuffers ==
    { WalkBoxesOfKinds(k) : k \in UNION { [1..n -> WalkBoxKinds] : n \in 0..MaxBoxes } }

\* The tag a walk looks for and the offset it starts at (the walks inside
\* meta skip the 4-byte full-box header).
WalkTag(w) == CASE w = "top" -> TagMeta [] w = "hdlr" -> TagHdlr [] w = "iloc" -> TagIloc
WalkStart(w) == IF w = "top" THEN 0 ELSE 4

InitWalk ==
    /\ walk \in {"top", "hdlr", "iloc"}
    /\ \E b \in WalkBuffers : wbuf = (IF walk = "top" THEN b ELSE <<0, 0, 0, 0>> \o b)
    /\ wcur = WalkStart(walk)
    /\ wstate = "walking"
    /\ InjectIdle /\ ExtractIdle /\ EncodeIdle /\ PatchIdle /\ WorkerIdle

WalkStep ==
    /\ wstate = "walking"
    /\ IF ~(wcur < Len(wbuf))
       THEN wstate' = "absent" /\ wcur' = wcur
       ELSE LET r == WalkIteration(wbuf, wcur, Len(wbuf), WalkTag(walk))
            IN  wstate' = r.st /\ wcur' = r.at
    /\ UNCHANGED <<walk, wbuf, injectVars, extractVars, encodeVars, patchVars, workerVars>>

NextWalk == WalkStep

SpecWalk == InitWalk /\ [][NextWalk]_vars /\ WF_vars(WalkStep)

\* A header the parser returns at the cursor has header_size <= size and
\* ends within the range.
HeaderWithinRange ==
    (wstate = "walking" /\ wcur < Len(wbuf)) =>
        LET h == ParseBoxHeader(wbuf, wcur, Len(wbuf))
        IN  h.ok => /\ h.header_size \in {8, 16}
                    /\ h.header_size <= h.size
                    /\ wcur + h.size <= Len(wbuf)

\* An iteration that keeps walking moves the cursor forward by at least 8,
\* and never past the end.
CursorAdvances ==
    (wstate = "walking" /\ wstate' = "walking") =>
        (wcur' >= wcur + 8 /\ wcur' <= Len(wbuf))

\* C10: every box walk terminates: a returned header has header_size <= size
\* and offset + size <= end, the cursor grows by at least 8 per iteration,
\* and the loop ends by finding its box, by a malformed header or by
\* reaching the end of the range.
C10_WalkTerminates ==
    /\ []HeaderWithinRange
    /\ [][CursorAdvances]_vars
    /\ <>(wstate \in {"found", "malformed", "absent"})

\* A walk inside meta that stepped over a 16-byte-header box and found its
\* box after it.
C10_Witness == wstate = "found" /\ walk = "iloc" /\ wcur >= 4 + 16

(***************************************************************************)
(* SpecWorker: _worker_convert on one PNG file, an I/O step at a time.      *)
(* Image.open, img.save and unlink are external: each may raise.  The codec *)
(* writes one of CodecShapes.                                               *)
(***************************************************************************)
WorkerPngs ==
    { <<"tEXt", "IEND">>, <<"IEND">>, <<"iTXt_badutf8", "tEXt">>, <<"zTXt_bad", "iTXt">> }

CodecShapes ==
    { s \in Shapes :
        /\ s.meta \in {"n", "none"} /\ s.hdlr \in {"n", "x"} /\ ~s.ilocFirst
        /\ s.name \in {"empty", "nul"} /\ s.iloc \in {"v0", "v3", "ovf"} }

\* Line 324: the source is removed unless dryrun.
ShouldUnlinkAlways(dry) == TRUE

ShouldUnlink(dry) == ~dry

\* Lines 315-322 run unless dryrun.
ShouldSave(dry) == ~dry

InitWorker ==
    /\ chunks \in WorkerPngs
    /\ png = BuildPng(chunks)
    /\ parameters = Absent
    /\ extracted = FALSE
    /\ dryrun \in BOOLEAN
    /\ pngDecodes \in BOOLEAN
    /\ pngExists = TRUE
    /\ avifExists = FALSE
    /\ exif = [present |-> FALSE, bytes |-> <<>>]
    /\ ret = "none"
    /\ wpc = "extract"
    /\ InjectIdle /\ EncodeIdle /\ PatchIdle /\ WalkIdle

\* the except clause of line 329
WorkerFails == wpc' = "done" /\ ret' = "fail"

\* line 311
WorkerExtract ==
    /\ wpc = "extract"
    /\ parameters' = ExtractSdParameters(png)
    /\ extracted' = TRUE
    /\ wpc' = "open"
    /\ UNCHANGED <<png, chunks, injectVars, encodeVars, patchVars, walkVars,
                   dryrun, pngDecodes, pngExists, avifExists, exif, ret>>

\* line 313, and for dryrun the return of line 327
WorkerOpen ==
    /\ wpc = "open"
    /\ IF ~pngDecodes THEN WorkerFails
       ELSE IF ShouldSave(dryrun) THEN wpc' = "save" /\ ret' = ret
       ELSE IF ShouldUnlink(dryrun) THEN wpc' = "unlink" /\ ret' = ret
       ELSE wpc' = "done" /\ ret' = "ok"
    /\ UNCHANGED <<extractVars, injectVars, encodeVars, patchVars, walkVars,
                   dryrun, pngDecodes, pngExists, avifExists, exif>>

\* lines 316-321: the codec writes the .avif file, or raises
WorkerSave ==
    /\ wpc = "save"
    /\ exif' = IF parameters.present
               THEN [present |-> TRUE, bytes |-> ToUserCommentBytes(parameters.text)]
               ELSE [present |-> FALSE, bytes |-> <<>>]
    /\ \/ /\ \E s \in CodecShapes :
                /\ shape' = s
                /\ avif' = BuildAvif(s)
                /\ avif0' = BuildAvif(s)
                /\ avif1' = BuildAvif(s)
          /\ avifExists' = TRUE
          /\ wpc' = "inject"
          /\ ret' = ret
       \/ /\ WorkerFails
          /\ UNCHANGED <<avif, avif0, avif1, shape, avifExists>>
    /\ UNCHANGED <<calls, outcome, extractVars, encodeVars, patchVars, walkVars,
                   dryrun, pngDecodes, pngExists>>

\* line 322
WorkerInject ==
    /\ wpc = "inject"
    /\ LET r == InjectHandlerDescription(avif, Libavif)
       IN  /\ avif' = r.data
           /\ avif1' = r.data
           /\ outcome' = r.outcome
           /\ IF r.outcome = "raised" THEN WorkerFails
              ELSE IF ShouldUnlink(dryrun) THEN wpc' = "unlink" /\ ret' = ret
              ELSE wpc' = "done" /\ ret' = "ok"
    /\ calls' = calls + 1
    /\ UNCHANGED <<avif0, shape, extractVars, encodeVars, patchVars, walkVars,
                   dryrun, pngDecodes, pngExists, avifExists, exif>>

\* lines 324-327: unlink removes the source, or raises
WorkerUnlink ==
    /\ wpc = "unlink"
    /\ \/ pngExists' = FALSE /\ wpc' = "done" /\ ret' = "ok"
       \/ pngExists' = pngExists /\ WorkerFails
    /\ UNCHANGED <<injectVars, extractVars, encodeVars, patchVars, walkVars,
                   dryrun, pngDecodes, avifExists, exif>>

NextWorker ==
    \/ WorkerExtract
    \/ WorkerOpen
    \/ WorkerSave
    \/ WorkerInject
    \/ WorkerUnlink

SpecWorker == InitWorker /\ [][NextWorker]_vars

\* C5: no exception escapes the injector, whatever the file holds (an iloc
\* extent offset that no longer fits its field included), so the worker is
\* never aborted by the injection.
C5_NoExceptionEscapes == outcome # "raised"

\* C8: with dryrun the worker reports success on a valid PNG, writes no
\* AVIF and keeps the PNG; without dryrun the PNG is removed exactly when
\* the worker returns success, and a removed PNG means the AVIF exists and
\* the injection completed without an exception.
C8_FilesystemEffect ==
    /\ dryrun => pngExists /\ ~avifExists
    /\ (dryrun /\ wpc = "done" /\ pngDecodes) => ret = "ok"
    /\ (~dryrun /\ wpc = "done") => (~pngExists <=> ret = "ok")
    /\ ~pngExists => avifExists /\ outcome \in {"noop", "written"}

\* The worker converted a file: the AVIF written and patched, the PNG gone.
C8_Witness ==
    /\ ~dryrun /\ wpc = "done" /\ ret = "ok"
    /\ ~pngExists /\ avifExists /\ outcome = "written" /\ exif.present

\* The dryrun run the test makes: success, nothing written or removed.
C8_WitnessDryrun == dryrun /\ wpc = "done" /\ ret = "ok" /\ pngExists

====
